---------------------------- MODULE Spec2Model ----------------------------
(***************************************************************************)
(* memfs.File (pkg/memfs/file.go): the growable byte buffer of a file      *)
(* node, its cursor and its append flag, and the operations that read     *)
(* and write it; and a directory node, which refuses them.  Then the      *)
(* directory tree of the same package: AddFile, ReadDir, ReadFile, the     *)
(* path resolver open and the fs.FS view fsDir, on nodes that are the same *)
(* File.                                                                   *)
(*                                                                         *)
(* A Go slice is modelled by its backing array (arr, a sequence whose      *)
(* length is the capacity), its length (len) and whether it is nil.        *)
(* Go index i is arr[i + 1].  An operation that panics (a slice            *)
(* expression out of range) ends the run: ret.panic is set and no further  *)
(* operation is taken.                                                     *)
(***************************************************************************)
EXTENDS Integers, Sequences, FiniteSets

VARIABLES
    fil,      \* the File the buffer operations are called on: [off, arr, len,
              \* nil, flag, name, isDir, symlink, parent, cursor, entries]
    op,       \* the last call: [name, k], k its count or size argument; a
              \* call on the tree also has dir, file and (Open) path
    ret,      \* what the last call returned: [n, err, panic, hang]; ReadDir
              \* also ets, Open also path, Stat info, ReadFile data
    written,  \* history: offsets the callers wrote to and did not truncate away
    tk,       \* history: lowest k of a shrinking Truncate(k) since which only
              \* Seek, Write, WriteAt and Truncate were called; -1 when none
              \* (both are kept by the actions of SpecWS and SpecTrunc only)
    nodes     \* the Files of a directory tree, by identity: the nodes the
              \* directory operations are called on (the tree
              \* specifications only)

vars == <<fil, op, ret, written, tk, nodes>>

(***************************************************************************)
(* Bounds of the model.                                                    *)
(***************************************************************************)
\* Bytes are 0..MaxByte.
MaxByte == 1
\* Longest byte sequence handed to a write, and longest read destination.
MaxData == 2
\* Largest spare capacity (cap - len) of the content given to FileWith.
MaxSpare == 1
\* Largest cursor Seek may set, largest WriteAt offset and Truncate size.
MaxOff == 3
\* Operations that would allocate more than MaxCap bytes are not taken.
MaxCap == 5
\* Largest count given to ReadDir.
MaxCount == 2

\* Most names in a path given to open.
MaxDepth == 3

\* smallBufferSize (file.go:21, 64 in the code) and bytes.MinRead (512 in the
\* Go library), scaled down so that requests of at most MaxData bytes fall on
\* both sides of every comparison the code makes with them.  The code relies
\* on MinRead > smallBufferSize only.
smallBufferSize == 1
MinRead == 2

Byte == 0..MaxByte
NonZero == 1..MaxByte

\* The byte sequences callers write: no zero bytes, so that a zero read back
\* from the file is a byte nobody wrote.
Data == UNION {[1..n -> NonZero] : n \in 0..MaxData}

Min(a, b) == IF a < b THEN a ELSE b
Max(a, b) == IF a > b THEN a ELSE b

O_APPEND == "O_APPEND"

(***************************************************************************)
(* Slices.                                                                 *)
(***************************************************************************)
cap(f) == Len(f.arr)

\* fil.buf as a byte sequence: the first len bytes of the backing array.
content(f) == SubSeq(f.arr, 1, f.len)

\* make([]byte, n): n zero bytes.
makeSlice(n) == [i \in 1..n |-> 0]

\* copy(arr[at:at+n], src[:n]) on the backing array.
copyAt(arr, at, src, n) ==
    [i \in 1..Len(arr) |-> IF at < i /\ i <= at + n THEN src[i - at] ELSE arr[i]]

\* zeroOutSlice(arr[from:to]).
zeroOutSlice(arr, from, to) ==
    [i \in 1..Len(arr) |-> IF from < i /\ i <= to THEN 0 ELSE arr[i]]

(***************************************************************************)
(* File.tryGrowByReslice, File.grow, File.write.                           *)
(***************************************************************************)
tryGrowByReslice(f, n) ==
    IF n <= f.len - f.off
    THEN [ok |-> TRUE, f |-> f]
    ELSE IF n <= cap(f) - f.off
         THEN [ok |-> TRUE, f |-> [f EXCEPT !.len = f.off + n]]
         ELSE [ok |-> FALSE, f |-> f]

\* grow allocating capacity + n, without the doubling.
growLinear(f, n) ==
    LET r == tryGrowByReslice(f, n) IN
    IF r.ok THEN r.f
    ELSE IF f.nil /\ n <= smallBufferSize
         THEN [f EXCEPT !.arr = makeSlice(smallBufferSize), !.len = n,
                        !.nil = FALSE]
         ELSE LET tmp == makeSlice(cap(f) + n) IN
              [f EXCEPT !.arr = copyAt(tmp, 0, f.arr, f.len),
                        !.len = cap(f) + n, !.nil = FALSE]

\* grow allocating exactly length + n.
growExact(f, n) ==
    LET r == tryGrowByReslice(f, n) IN
    IF r.ok THEN r.f
    ELSE IF f.nil /\ n <= smallBufferSize
         THEN [f EXCEPT !.arr = makeSlice(smallBufferSize), !.len = n,
                        !.nil = FALSE]
         ELSE LET tmp == makeSlice(f.len + n) IN
              [f EXCEPT !.arr = copyAt(tmp, 0, f.arr, f.len),
                        !.len = f.len + n, !.nil = FALSE]

grow(f, n) ==
    LET r == tryGrowByReslice(f, n) IN
    IF r.ok THEN r.f
    ELSE IF f.nil /\ n <= smallBufferSize
         THEN [f EXCEPT !.arr = makeSlice(smallBufferSize), !.len = n,
                        !.nil = FALSE]
         ELSE LET tmp == makeSlice(cap(f) * 2 + n) IN
              [f EXCEPT !.arr = copyAt(tmp, 0, f.arr, f.len),
                        !.len = cap(f) * 2 + n, !.nil = FALSE]

\* write with "fil.buf = fil.buf[:fil.off]" for its last reslice: the bytes
\* after the written range are cut off.
writeTruncating(f, p) ==
    LET f0 == IF O_APPEND \in f.flag THEN [f EXCEPT !.off = f.len] ELSE f
        g  == grow(f0, Len(p))
    IN  IF g.off > g.len
        THEN [f |-> g, n |-> 0, panic |-> TRUE]
        ELSE LET n == Min(g.len - g.off, Len(p)) IN
             [f |-> [g EXCEPT !.arr = copyAt(g.arr, g.off, p, n),
                              !.off = g.off + n, !.len = g.off + n],
              n |-> n, panic |-> FALSE]

\* write without the O_APPEND test: the cursor is not moved to the end.
writeNoAppend(f, p) ==
    LET l == f.len
        g == grow(f, Len(p))
    IN  IF g.off > g.len
        THEN [f |-> g, n |-> 0, panic |-> TRUE]
        ELSE LET n  == Min(g.len - g.off, Len(p))
                 o2 == g.off + n
                 l2 == IF o2 > l THEN o2 ELSE l
             IN  [f |-> [g EXCEPT !.arr = copyAt(g.arr, g.off, p, n),
                                  !.off = o2, !.len = l2],
                  n |-> n, panic |-> FALSE]

\* write(p): the file afterwards, the count returned, and whether the slice
\* expression fil.buf[fil.off:] was out of range.
write(f, p) ==
    LET f0 == IF O_APPEND \in f.flag THEN [f EXCEPT !.off = f.len] ELSE f
        l  == f0.len
        g  == grow(f0, Len(p))
    IN  IF g.off > g.len
        THEN [f |-> g, n |-> 0, panic |-> TRUE]
        ELSE LET n  == Min(g.len - g.off, Len(p))
                 o2 == g.off + n
                 l2 == IF o2 > l THEN o2 ELSE l
             IN  [f |-> [g EXCEPT !.arr = copyAt(g.arr, g.off, p, n),
                                  !.off = o2, !.len = l2],
                  n |-> n, panic |-> FALSE]

(***************************************************************************)
(* Constructors: NewFile and FileWith with the options WithFileOffset and  *)
(* WithFileAppend.  The content handed to FileWith is nil or a slice whose *)
(* spare capacity is zero (make([]byte, l, c) and writes below l).         *)
(***************************************************************************)
\* A nil *File: the parent of a node that was not added to a directory.
NoParent == "nil"

\* A nil *File as a handle: what a constructor that fails returns, and a
\* receiver Close accepts.
NilFile == <<>>

\* A directory's entries before the first AddFile: no name has a node.
NoEntries == [name \in {} |-> name]

\* The name is "file" here and set by Named; the buffer operations never
\* read it.
FileWith(c, spare, isnil, o, flag) ==
    [off |-> o, arr |-> c \o makeSlice(spare), len |-> Len(c), nil |-> isnil,
     flag |-> flag, name |-> "file", isDir |-> FALSE, symlink |-> FALSE,
     parent |-> NoParent, cursor |-> 0, entries |-> NoEntries]

\* info.size of a directory, set by NewDirectory and NewRoot and never
\* assigned again.  (info.size of a file is read by nothing: File.Stat
\* replaces it by File.Size.)
dirSize == 4096

\* NewDirectory and NewRoot: a node with no buffer and the directory mode
\* bit.
NewDirectory == [FileWith(<<>>, 0, TRUE, 0, {}) EXCEPT !.isDir = TRUE]

\* FileInfo.IsDir: the directory bit of info.mode.
IsDir(f) == f.isDir

\* File.Size.
Size(f) == IF ~IsDir(f) THEN f.len ELSE dirSize

NewFile(o, flag) == FileWith(<<>>, MinRead, FALSE, o, flag)

(***************************************************************************)
(* Strings are sequences of characters.                                    *)
(***************************************************************************)
\* strings.Split(s, "/"): the elements of s between the separators; one more
\* than there are separators.
RECURSIVE Split(_)
Split(s) ==
    IF \A i \in 1..Len(s) : s[i] # "/"
    THEN <<s>>
    ELSE LET i == CHOOSE j \in 1..Len(s) :
                      s[j] = "/" /\ \A h \in 1..(j - 1) : s[h] # "/"
         IN  <<SubSeq(s, 1, i - 1)>> \o Split(SubSeq(s, i + 1, Len(s)))

\* fs.ValidPath: "." or elements none of which is empty, "." or "..".
ValidPath(s) ==
    \/ s = <<".">>
    \/ LET elems == Split(s) IN
       \A i \in 1..Len(elems) :
           elems[i] \notin {<<>>, <<".">>, <<".", ".">>}

(***************************************************************************)
(* NewFile and FileWith as the callers call them: with a name and a list   *)
(* of options, WithFileOffset(off) and WithFileAppend.                     *)
(***************************************************************************)
WithFileOffset(off) == [opt |-> "WithFileOffset", off |-> off]
WithFileAppend == [opt |-> "WithFileAppend", off |-> 0]

\* for _, opt := range opts { opt(fil) }
RECURSIVE applyOpts(_, _)
applyOpts(f, opts) ==
    IF opts = <<>>
    THEN f
    ELSE LET o == Head(opts) IN
         applyOpts(IF o.opt = "WithFileOffset"
                   THEN [f EXCEPT !.off = o.off]
                   ELSE [f EXCEPT !.flag = @ \cup {O_APPEND}],
                   Tail(opts))

\* The result of a constructor: the File (NilFile when there is none), the
\* error, and whether it panicked with ErrOutOfBounds.
Made(f, err, panic) == [f |-> f, err |-> err, panic |-> panic]

\* FileWith testing the offset against the capacity of the content.
fileWithOptsCap(name, c, spare, isnil, opts) ==
    IF ~ValidPath(name) \/ \E i \in 1..Len(name) : name[i] = "/"
    THEN Made(NilFile, "ErrInvalid", FALSE)
    ELSE LET f == applyOpts(FileWith(c, spare, isnil, 0, {}), opts) IN
         IF f.off < 0 \/ f.off > cap(f)
         THEN Made(NilFile, "nil", TRUE)
         ELSE Made(f, "nil", FALSE)

\* FileWith(name, content, opts...), the content c with spare capacity.
fileWithOpts(name, c, spare, isnil, opts) ==
    IF ~ValidPath(name) \/ \E i \in 1..Len(name) : name[i] = "/"
    THEN Made(NilFile, "ErrInvalid", FALSE)
    ELSE LET f == applyOpts(FileWith(c, spare, isnil, 0, {}), opts) IN
         IF f.off < 0 \/ f.off > f.len
         THEN Made(NilFile, "nil", TRUE)
         ELSE Made(f, "nil", FALSE)

\* NewFile(name, opts...).
newFileOpts(name, opts) == fileWithOpts(name, <<>>, MinRead, FALSE, opts)

\* The names given to the constructors: a name, "." and a path.
NewNames == {<<"a">>, <<".">>, <<"a", "/", "b">>}

\* The lists of options: none, one of WithFileAppend and
\* WithFileOffset(-1 .. MaxOff), or one of these after WithFileAppend,
\* WithFileOffset(-1) or WithFileOffset(1).
Opts ==
    LET one == {WithFileAppend}
                   \cup {WithFileOffset(o) : o \in (-1)..MaxOff}
        first == {WithFileAppend, WithFileOffset(-1), WithFileOffset(1)}
    IN  {<<>>} \cup {<<a>> : a \in one}
               \cup {<<a, b>> : a \in first, b \in one}

Flags == {{}, {O_APPEND}}

Constructed ==
    {FileWith(c, s, FALSE, o, fl) :
        c \in Data, s \in 0..MaxSpare, o \in 0..MaxData, fl \in Flags}
    \cup {FileWith(<<>>, 0, TRUE, 0, fl) : fl \in Flags}
    \cup {NewFile(0, fl) : fl \in Flags}

\* No tree: the file is on its own.
NoNodes == [id \in {} |-> id]

NoOp == [name |-> "new", k |-> 0]
Call(name, k) == [name |-> name, k |-> k]
Ok(n) == [n |-> n, err |-> "nil", panic |-> FALSE, hang |-> FALSE]
Err(n, e) == [n |-> n, err |-> e, panic |-> FALSE, hang |-> FALSE]
Panic == [n |-> 0, err |-> "nil", panic |-> TRUE, hang |-> FALSE]
Hang == [n |-> 0, err |-> "nil", panic |-> FALSE, hang |-> TRUE]

\* No call is made after a panic or in a call that never returns.
Running == ~ret.panic /\ ~ret.hang

\* The history variables: kept when h, left alone otherwise.
Hist(h, w, t) ==
    /\ IF h THEN written' = w /\ tk' = t ELSE UNCHANGED <<written, tk>>
    /\ UNCHANGED nodes

Init ==
    /\ fil \in {f \in Constructed : f.off <= f.len}
    /\ op = NoOp
    /\ ret = Ok(0)
    /\ written = {}
    /\ tk = -1
    /\ nodes = NoNodes

\* The same, the bytes of the initial content counting as written.
InitH ==
    /\ fil \in {f \in Constructed : f.off <= f.len}
    /\ op = NoOp
    /\ ret = Ok(0)
    /\ written = 0..(fil.len - 1)
    /\ tk = -1
    /\ nodes = NoNodes

(***************************************************************************)
(* The caller makes its File before it calls anything else, and goes on   *)
(* with it; when the constructor returns an error the caller goes on with  *)
(* the File it had.  op.k is the offset the options left.                  *)
(***************************************************************************)
CallFileWith ==
    \E name \in NewNames, c \in Data, spare \in 0..MaxSpare,
       isnil \in BOOLEAN, opts \in Opts :
        LET r == fileWithOpts(name, c, spare, isnil, opts) IN
        /\ Running /\ op = NoOp
        /\ isnil => c = <<>> /\ spare = 0
        /\ fil' = IF r.f = NilFile THEN fil ELSE r.f
        /\ op' = Call("FileWith",
                      applyOpts(FileWith(c, spare, isnil, 0, {}), opts).off)
        /\ ret' = IF r.panic THEN Panic ELSE Err(0, r.err)
        /\ UNCHANGED <<written, tk, nodes>>

CallNewFile ==
    \E name \in NewNames, opts \in Opts :
        LET r == newFileOpts(name, opts) IN
        /\ Running /\ op = NoOp
        /\ fil' = IF r.f = NilFile THEN fil ELSE r.f
        /\ op' = Call("NewFile", applyOpts(NewFile(0, {}), opts).off)
        /\ ret' = IF r.panic THEN Panic ELSE Err(0, r.err)
        /\ UNCHANGED <<written, tk, nodes>>

(***************************************************************************)
(* File.Write, File.WriteByte, File.WriteString.                           *)
(***************************************************************************)
\* The cursor a write starts at.
writeOff(f) == IF O_APPEND \in f.flag THEN f.len ELSE f.off

\* The result of a call on a directory: nothing done, count 0, EISDIR.
EISDIR(f) == [f |-> f, n |-> 0, err |-> "EISDIR", panic |-> FALSE]

\* File.Write (File.WriteByte with p one byte long, File.WriteString).
fileWrite(f, p) ==
    IF IsDir(f)
    THEN EISDIR(f)
    ELSE LET w == write(f, p) IN
         [f |-> w.f, n |-> w.n, err |-> "nil", panic |-> w.panic]

DoWrite(name, p, h) ==
    LET r == fileWrite(fil, p) IN
    /\ Running
    /\ cap(r.f) <= MaxCap
    /\ fil' = r.f
    /\ op' = Call(name, Len(p))
    /\ ret' = IF r.panic THEN Panic ELSE Err(r.n, r.err)
    /\ Hist(h, written \cup (writeOff(fil)..(writeOff(fil) + Len(p) - 1)),
            IF name = "Write" THEN tk ELSE -1)

Write == \E p \in Data : DoWrite("Write", p, FALSE)

WriteH == \E p \in Data : DoWrite("Write", p, TRUE)

WriteByte == \E b \in NonZero : DoWrite("WriteByte", <<b>>, FALSE)

WriteString == \E s \in Data : DoWrite("WriteString", s, FALSE)

(***************************************************************************)
(* File.WriteAt.                                                           *)
(***************************************************************************)
\* WriteAt without the O_APPEND test.
writeAtNoCheck(f, p, off) ==
    LET prev == f.off
        c    == cap(f)
        pl   == Len(p)
        f1   == IF off + pl > c
                THEN [grow([f EXCEPT !.off = c], off + pl - f.len)
                          EXCEPT !.len = off + pl]
                ELSE f
        w    == write([f1 EXCEPT !.off = off], p)
    IN  [f |-> IF w.panic THEN w.f ELSE [w.f EXCEPT !.off = prev],
         n |-> w.n, err |-> "nil", panic |-> w.panic]

writeAt(f, p, off) ==
    IF IsDir(f)
    THEN EISDIR(f)
    ELSE IF O_APPEND \in f.flag
    THEN [f |-> f, n |-> 0, err |-> "errWriteAtInAppendMode", panic |-> FALSE]
    ELSE LET prev == f.off
             c    == cap(f)
             pl   == Len(p)
             f1   == IF off + pl > c
                     THEN [grow([f EXCEPT !.off = c], off + pl - f.len)
                               EXCEPT !.len = off + pl]
                     ELSE f
             w    == write([f1 EXCEPT !.off = off], p)
         IN  [f |-> IF w.panic THEN w.f ELSE [w.f EXCEPT !.off = prev],
              n |-> w.n, err |-> "nil", panic |-> w.panic]

DoWriteAt(p, off, h) ==
    LET r == writeAt(fil, p, off) IN
    /\ Running
    /\ cap(r.f) <= MaxCap
    /\ fil' = r.f
    /\ op' = Call("WriteAt", Len(p))
    /\ ret' = IF r.panic THEN Panic ELSE Err(r.n, r.err)
    /\ Hist(h, IF r.err = "nil"
               THEN written \cup (off..(off + Len(p) - 1))
               ELSE written,
            tk)

WriteAt == \E p \in Data, off \in 0..MaxOff : DoWriteAt(p, off, FALSE)

WriteAtH == \E p \in Data, off \in 0..MaxOff : DoWriteAt(p, off, TRUE)

(***************************************************************************)
(* File.Read with a destination of k bytes.                                *)
(***************************************************************************)
\* The file afterwards, the count and error returned, the bytes copied to
\* the destination (data), and whether fil.buf[fil.off:] was out of range.
read(f, k) ==
    IF IsDir(f)
    THEN [f |-> f, n |-> 0, err |-> "EISDIR", data |-> <<>>, panic |-> FALSE]
    ELSE IF k > 0 /\ f.off >= f.len
    THEN [f |-> f, n |-> 0, err |-> "EOF", data |-> <<>>, panic |-> FALSE]
    ELSE IF f.off > f.len
         THEN [f |-> f, n |-> 0, err |-> "nil", data |-> <<>>, panic |-> TRUE]
         ELSE LET n == Min(k, f.len - f.off) IN
              [f |-> [f EXCEPT !.off = f.off + n], n |-> n, err |-> "nil",
               data |-> SubSeq(f.arr, f.off + 1, f.off + n), panic |-> FALSE]

Read ==
    \E k \in 0..MaxData :
        LET r == read(fil, k) IN
        /\ Running
        /\ fil' = r.f
        /\ op' = Call("Read", k)
        /\ ret' = IF r.panic THEN Panic ELSE Err(r.n, r.err)
        /\ UNCHANGED <<written, tk, nodes>>

(***************************************************************************)
(* File.ReadByte.                                                          *)
(***************************************************************************)
readByte(f) ==
    IF IsDir(f)
    THEN [f |-> f, v |-> 0, err |-> "EISDIR"]
    ELSE IF f.off >= f.len
    THEN [f |-> f, v |-> 0, err |-> "EOF"]
    ELSE [f |-> [f EXCEPT !.off = f.off + 1], v |-> f.arr[f.off + 1],
          err |-> "nil"]

ReadByte ==
    LET r == readByte(fil) IN
    /\ Running
    /\ fil' = r.f
    /\ op' = Call("ReadByte", 0)
    /\ ret' = Err(r.v, r.err)
    /\ UNCHANGED <<written, tk, nodes>>

(***************************************************************************)
(* File.ReadAt with a destination of k bytes.  The deferred function puts  *)
(* the offset back on every way out of Read, a panic included.             *)
(***************************************************************************)
readAt(f, k, off) ==
    IF IsDir(f)
    THEN [f |-> f, n |-> 0, err |-> "EISDIR", data |-> <<>>, panic |-> FALSE]
    ELSE LET prev == f.off
             r    == read([f EXCEPT !.off = off], k)
         IN  [f     |-> [r.f EXCEPT !.off = prev],
              n     |-> r.n,
              err   |-> IF r.err # "nil" THEN r.err
                        ELSE IF r.n < k THEN "EOF" ELSE "nil",
              data  |-> r.data,
              panic |-> r.panic]

ReadAt ==
    \E k \in 0..MaxData, off \in 0..MaxOff :
        LET r == readAt(fil, k, off) IN
        /\ Running
        /\ fil' = r.f
        /\ op' = Call("ReadAt", k)
        /\ ret' = IF r.panic THEN Panic ELSE Err(r.n, r.err)
        /\ UNCHANGED <<written, tk, nodes>>

(***************************************************************************)
(* File.WriteTo.  The sink takes at most accept of the bytes it is handed  *)
(* and reports a short write when it took fewer than it was handed.        *)
(***************************************************************************)
writeTo(f, accept) ==
    IF IsDir(f)
    THEN [f |-> f, n |-> 0, err |-> "EISDIR", passed |-> <<>>, panic |-> FALSE]
    ELSE IF f.off > f.len
    THEN \* fil.buf[fil.off:] is out of range
         [f |-> f, n |-> 0, err |-> "nil", passed |-> <<>>, panic |-> TRUE]
    ELSE LET passed == SubSeq(f.arr, f.off + 1, f.len)
             n      == Min(accept, Len(passed))
         IN  [f |-> [f EXCEPT !.off = f.off + n], n |-> n,
              err |-> IF n < Len(passed) THEN "ErrShortWrite" ELSE "nil",
              passed |-> passed, panic |-> FALSE]

WriteTo ==
    \E accept \in 0..MaxCap :
        LET r == writeTo(fil, accept) IN
        /\ Running
        /\ fil' = r.f
        /\ op' = Call("WriteTo", accept)
        /\ ret' = IF r.panic THEN Panic ELSE Err(r.n, r.err)
        /\ UNCHANGED <<written, tk, nodes>>

(***************************************************************************)
(* File.Seek.                                                              *)
(***************************************************************************)
SeekStart == 0
SeekCurrent == 1
SeekEnd == 2

\* Seek without the test for a negative target.
seekUnchecked(f, offset, whence) ==
    LET o == CASE whence = SeekStart -> offset
               [] whence = SeekCurrent -> f.off + offset
               [] whence = SeekEnd -> f.len + offset
    IN  [f |-> [f EXCEPT !.off = o], n |-> o, err |-> "nil"]

seek(f, offset, whence) ==
    LET o == CASE whence = SeekStart -> offset
               [] whence = SeekCurrent -> f.off + offset
               [] whence = SeekEnd -> f.len + offset
    IN  IF IsDir(f)
        THEN [f |-> f, n |-> 0, err |-> "EISDIR"]
        ELSE IF o < 0
        THEN [f |-> f, n |-> 0, err |-> "EINVAL"]
        ELSE [f |-> [f EXCEPT !.off = o], n |-> o, err |-> "nil"]

Seek ==
    \E offset \in (-MaxOff)..MaxOff,
       whence \in {SeekStart, SeekCurrent, SeekEnd} :
        LET r == seek(fil, offset, whence) IN
        /\ Running
        /\ r.f.off <= MaxOff
        /\ fil' = r.f
        /\ op' = Call("Seek", 0)
        /\ ret' = Err(r.n, r.err)
        /\ UNCHANGED <<written, tk, nodes>>

(***************************************************************************)
(* File.Truncate.                                                          *)
(***************************************************************************)
truncate(f, size) ==
    IF IsDir(f)
    THEN [f |-> f, err |-> "EISDIR"]
    ELSE IF size < 0
    THEN [f |-> f, err |-> "EINVAL"]
    ELSE LET prev == f.off
             l    == f.len
             c    == cap(f)
             t    == CASE size = l -> f
                       [] size # l /\ size = c -> [f EXCEPT !.len = size]
                       [] size > l /\ size < c -> [f EXCEPT !.len = size]
                       [] size > c ->
                            [grow([f EXCEPT !.off = c], size - l)
                                 EXCEPT !.len = size]
                       [] OTHER ->
                            [f EXCEPT !.arr = zeroOutSlice(f.arr, size, l),
                                      !.len = size]
         IN  [f |-> [t EXCEPT !.off = prev], err |-> "nil"]

DoTruncate(size, h) ==
    LET r == truncate(fil, size) IN
    /\ Running
    /\ cap(r.f) <= MaxCap
    /\ fil' = r.f
    /\ op' = Call("Truncate", size)
    /\ ret' = Err(0, r.err)
    /\ Hist(h, IF size >= 0 THEN {i \in written : i < size} ELSE written,
            IF size >= 0 /\ size < fil.len
            THEN (IF tk = -1 THEN size ELSE Min(tk, size))
            ELSE tk)

Truncate == \E size \in (-1)..MaxOff : DoTruncate(size, FALSE)

TruncateH == \E size \in (-1)..MaxOff : DoTruncate(size, TRUE)

(***************************************************************************)
(* File.Grow(n), n >= 0.                                                   *)
(***************************************************************************)
\* Grow without the test for a directory.
GrowBufUnchecked(f, n) ==
    LET l == f.len IN
    IF l + n <= cap(f)
    THEN f
    ELSE [f EXCEPT !.arr = copyAt(makeSlice(l + n), 0, f.arr, l),
                   !.nil = FALSE]

GrowBuf(f, n) ==
    LET l == f.len IN
    IF IsDir(f) \/ l + n <= cap(f)
    THEN f
    ELSE [f EXCEPT !.arr = copyAt(makeSlice(l + n), 0, f.arr, l),
                   !.nil = FALSE]

Grow ==
    \E n \in 0..MaxData :
        /\ Running
        /\ cap(GrowBuf(fil, n)) <= MaxCap
        /\ fil' = GrowBuf(fil, n)
        /\ op' = Call("Grow", n)
        /\ ret' = Ok(0)
        /\ UNCHANGED <<written, tk, nodes>>

(***************************************************************************)
(* File.Close.                                                             *)
(***************************************************************************)
\* A Close that gives the buffer up, as Release does.
closeDiscarding(f) ==
    [f |-> IF f = NilFile
           THEN f
           ELSE [f EXCEPT !.off = 0, !.arr = <<>>, !.len = 0, !.nil = TRUE],
     err |-> "nil"]

\* The handle afterwards and the error returned.
close(f) ==
    [f |-> IF f = NilFile THEN f ELSE [f EXCEPT !.off = 0], err |-> "nil"]

Close ==
    /\ Running
    /\ fil' = close(fil).f
    /\ op' = Call("Close", 0)
    /\ ret' = Ok(0)
    /\ UNCHANGED <<written, tk, nodes>>

(***************************************************************************)
(* File.ReadFrom.  The source holds the bytes d.  Each r.Read(tmp) returns *)
(* at most chunk bytes and at most len(tmp); it reports io.EOF with its    *)
(* last bytes (eofLast) or on the call after them; it leaves the rest of   *)
(* tmp alone, or uses it as scratch space and leaves MaxByte there         *)
(* (scribble), as io.Reader allows.  A Read that is given an empty tmp     *)
(* while bytes remain returns (0, nil), as bytes.Reader does.              *)
(***************************************************************************)
\* ReadFrom handing the source the buffer itself, from the cursor to the
\* capacity, in one fill.
readFromDirect(f, rem, total, chunk, eofLast, scribble) ==
    LET g    == grow(f, MinRead)
        c    == cap(g)
        n    == Min(Len(rem), Max(c - g.off, 0))
        arr1 == [i \in 1..c |->
                    IF g.off < i /\ i <= g.off + n THEN rem[i - g.off]
                    ELSE IF scribble /\ g.off + n < i THEN MaxByte
                    ELSE g.arr[i]]
        o2   == g.off + n
        l2   == IF o2 > f.len THEN o2 ELSE f.len
    IN  [f |-> [g EXCEPT !.arr = arr1, !.off = o2, !.len = Min(l2, c)],
         n |-> total + n, panic |-> FALSE, hang |-> FALSE]

RECURSIVE readFromLoop(_, _, _, _, _, _)
readFromLoop(f, rem, total, chunk, eofLast, scribble) ==
    LET l      == f.len
        g      == grow(f, MinRead)
        c      == cap(g)
        tmpLen == c - l
        n      == Min(Min(chunk, Len(rem)), tmpLen)
        eof    == Len(rem) = 0 \/ (eofLast /\ n = Len(rem))
        \* n, err = r.Read(tmp), tmp being arr[l:c]
        arr1   == [i \in 1..c |->
                      IF l < i /\ i <= l + n THEN rem[i - l]
                      ELSE IF scribble /\ l + n < i THEN MaxByte
                      ELSE g.arr[i]]
        \* copy(fil.buf[fil.off:], tmp[:n])
        m      == Min(g.len - g.off, n)
        arr2   == [i \in 1..c |->
                      IF g.off < i /\ i <= g.off + m THEN arr1[l + (i - g.off)]
                      ELSE arr1[i]]
        \* zeroOutSlice(tmp[n:])
        arr3   == IF n < tmpLen THEN zeroOutSlice(arr2, l + n, c) ELSE arr2
        arrN   == IF l # g.off THEN arr3 ELSE arr1
        o2     == g.off + n
        l2     == IF o2 > l THEN o2 ELSE l
        f2     == [g EXCEPT !.arr = arrN, !.off = o2, !.len = l2]
    IN  IF l # g.off /\ g.off > g.len
        THEN \* fil.buf[fil.off:] is out of range
             [f |-> [g EXCEPT !.arr = arr1], n |-> total, panic |-> TRUE,
              hang |-> FALSE]
        ELSE IF l2 > c
        THEN \* fil.buf[:l] is out of range
             [f |-> [g EXCEPT !.arr = arrN, !.off = o2], n |-> total + n,
              panic |-> TRUE, hang |-> FALSE]
        ELSE IF eof
        THEN [f |-> f2, n |-> total + n, panic |-> FALSE, hang |-> FALSE]
        ELSE IF n = 0
        THEN \* nothing read, no error, same state: the loop never ends
             [f |-> f2, n |-> total, panic |-> FALSE, hang |-> TRUE]
        ELSE readFromLoop(f2, SubSeq(rem, n + 1, Len(rem)), total + n,
                          chunk, eofLast, scribble)

readFrom(f, d, chunk, eofLast, scribble) ==
    IF IsDir(f)
    THEN [f |-> f, n |-> 0, err |-> "EISDIR", panic |-> FALSE, hang |-> FALSE]
    ELSE LET r == readFromLoop(IF O_APPEND \in f.flag
                               THEN [f EXCEPT !.off = f.len] ELSE f,
                               d, 0, chunk, eofLast, scribble)
         IN  [f |-> r.f, n |-> r.n, err |-> "nil", panic |-> r.panic,
              hang |-> r.hang]

DoReadFrom(d, chunk, eofLast, scribble, h) ==
    LET r == readFrom(fil, d, chunk, eofLast, scribble) IN
    /\ Running
    /\ cap(r.f) <= MaxCap
    /\ fil' = r.f
    /\ op' = Call("ReadFrom", Len(d))
    /\ ret' = IF r.panic THEN Panic ELSE IF r.hang THEN Hang
              ELSE Err(r.n, r.err)
    /\ Hist(h, written \cup (writeOff(fil)..(writeOff(fil) + Len(d) - 1)), -1)

ReadFrom ==
    \E d \in Data, chunk \in 1..MaxData, eofLast \in BOOLEAN,
       scribble \in BOOLEAN :
        DoReadFrom(d, chunk, eofLast, scribble, FALSE)

\* ReadFrom from a source that never touches tmp beyond the bytes it returns
\* and reports io.EOF on the call after the last bytes, as bytes.Reader.
ReadFromH == \E d \in Data : DoReadFrom(d, MaxData, FALSE, FALSE, TRUE)

(***************************************************************************)
(* File.Release.                                                           *)
(***************************************************************************)
\* A Release that hands the buffer out and keeps it too.
releaseShared(f) ==
    [f |-> [f EXCEPT !.off = 0], data |-> content(f)]

\* The node afterwards and the slice returned (data, its bytes [0, len)).
release(f) ==
    [f |-> [f EXCEPT !.off = 0, !.arr = <<>>, !.len = 0, !.nil = TRUE],
     data |-> content(f)]

\* op.k is the cursor the call found, ret.n the length of the slice returned.
Release ==
    LET r == release(fil) IN
    /\ Running
    /\ fil' = r.f
    /\ op' = Call("Release", fil.off)
    /\ ret' = Ok(Len(r.data))
    /\ UNCHANGED <<written, tk, nodes>>

(***************************************************************************)
(* The directory tree.  nodes maps the identity of each File of the tree   *)
(* (a pointer in the code) to its fields; parent and the values of entries *)
(* are identities.                                                         *)
(***************************************************************************)
\* The name FileWith and NewDirectory were given.
Named(f, name) == [f EXCEPT !.name = name]

\* NewRoot: the directory without a name.
NewRoot == Named(NewDirectory, "")

\* FileInfo.Name: filepath.Base of the name, which is the name itself when
\* it has no separator (FileWith refuses one), and "." when it is empty.
Name(f) == IF f.name = "" THEN "." ELSE f.name

\* FileInfo.Type: the type bits of info.mode.  NewDirectory and NewRoot set
\* the directory bit and FileWith none; symlink is the fs.ModeSymlink bit,
\* which no constructor sets.
Type(f) ==
    IF IsDir(f)
    THEN "ModeDir"
    ELSE IF f.symlink THEN "ModeSymlink" ELSE "regular"

\* The nodes of the tree: a root, the directories "a" and "b", and the files
\* "a" (one byte long, its cursor at o) and "b" (from NewFile).
Ids == {"root", "dirA", "dirB", "filA", "filB"}

Constructors(o) ==
    [id \in Ids |->
        CASE id = "root" -> NewRoot
          [] id = "dirA" -> Named(NewDirectory, "a")
          [] id = "dirB" -> Named(NewDirectory, "b")
          [] id = "filA" -> Named(FileWith(<<MaxByte>>, 0, FALSE, o, {}), "a")
          [] id = "filB" -> Named(NewFile(0, {}), "b")]

\* File.path calls itself on the parent: whether it returns, that is,
\* whether the chain of parents of id ends (steps bounds the chain).
RECURSIVE pathReturns(_, _, _)
pathReturns(ns, id, steps) ==
    IF ns[id].parent = NoParent
    THEN TRUE
    ELSE IF steps = 0
         THEN FALSE
         ELSE pathReturns(ns, ns[id].parent, steps - 1)

\* entries[name] = id.
Put(entries, name, id) ==
    [k \in DOMAIN entries \cup {name} |->
        IF k = name THEN id ELSE entries[k]]

\* AddFile without the test for an entry of that name.
addFileOverwrite(ns, d, c) ==
    IF ~IsDir(ns[d])
    THEN [nodes |-> ns, err |-> "ENOTDIR", panic |-> FALSE]
    ELSE IF ns[c].parent # NoParent
    THEN IF pathReturns(ns, c, Cardinality(DOMAIN ns))
         THEN [nodes |-> ns, err |-> "ErrHasParent", panic |-> FALSE]
         ELSE [nodes |-> ns, err |-> "nil", panic |-> TRUE]
    ELSE LET added == [ns EXCEPT
                          ![d].entries = Put(@, Name(ns[c]), c)]
         IN  [nodes |-> [added EXCEPT ![c].parent = d],
              err |-> "nil", panic |-> FALSE]

\* AddFile registering the child without making the directory its parent.
addFileNoParent(ns, d, c) ==
    IF ~IsDir(ns[d])
    THEN [nodes |-> ns, err |-> "ENOTDIR", panic |-> FALSE]
    ELSE IF ns[c].parent # NoParent
    THEN IF pathReturns(ns, c, Cardinality(DOMAIN ns))
         THEN [nodes |-> ns, err |-> "ErrHasParent", panic |-> FALSE]
         ELSE [nodes |-> ns, err |-> "nil", panic |-> TRUE]
    ELSE IF Type(ns[c]) \notin {"ModeDir", "regular"}
    THEN [nodes |-> ns, err |-> "ErrInvalid", panic |-> FALSE]
    ELSE IF Name(ns[c]) \in DOMAIN ns[d].entries
    THEN [nodes |-> ns, err |-> "ErrExist", panic |-> FALSE]
    ELSE [nodes |-> [ns EXCEPT ![d].entries = Put(@, Name(ns[c]), c)],
          err |-> "nil", panic |-> FALSE]

\* File.AddFile: ns[d].AddFile(ns[c]).  The nodes afterwards, the error, and
\* whether the call ended the run (file.path() of a node whose chain of
\* parents is a cycle overflows the stack).
addFile(ns, d, c) ==
    IF ~IsDir(ns[d])
    THEN [nodes |-> ns, err |-> "ENOTDIR", panic |-> FALSE]
    ELSE IF ns[c].parent # NoParent
    THEN IF pathReturns(ns, c, Cardinality(DOMAIN ns))
         THEN [nodes |-> ns, err |-> "ErrHasParent", panic |-> FALSE]
         ELSE [nodes |-> ns, err |-> "nil", panic |-> TRUE]
    ELSE IF Type(ns[c]) \notin {"ModeDir", "regular"}
    THEN [nodes |-> ns, err |-> "ErrInvalid", panic |-> FALSE]
    ELSE IF Name(ns[c]) \in DOMAIN ns[d].entries
    THEN [nodes |-> ns, err |-> "ErrExist", panic |-> FALSE]
    ELSE LET added == [ns EXCEPT
                          ![d].entries = Put(@, Name(ns[c]), c)]
         IN  [nodes |-> [added EXCEPT ![c].parent = d],
              err |-> "nil", panic |-> FALSE]

\* A call on the nodes of the tree: dir the receiver, file the argument.
TreeCall(name, k, dir, file) ==
    [name |-> name, k |-> k, dir |-> dir, file |-> file]

AddFile ==
    \E d \in DOMAIN nodes, c \in DOMAIN nodes :
        LET r == addFile(nodes, d, c) IN
        /\ Running
        /\ nodes' = r.nodes
        /\ op' = TreeCall("AddFile", 0, d, c)
        /\ ret' = IF r.panic THEN Panic ELSE Err(0, r.err)
        /\ UNCHANGED <<fil, written, tk>>

\* File.Close on a node of the tree; op.k is the cursor the call found.
CloseNode ==
    \E id \in DOMAIN nodes :
        LET r == close(nodes[id]) IN
        /\ Running
        /\ nodes' = [nodes EXCEPT ![id] = r.f]
        /\ op' = TreeCall("Close", nodes[id].off, id, id)
        /\ ret' = Err(0, r.err)
        /\ UNCHANGED <<fil, written, tk>>

(***************************************************************************)
(* File.ReadDir.                                                           *)
(***************************************************************************)
\* The order of the names as strings, byte by byte: '.' < 'a' < 'b'.
Rank(name) == CASE name = "." -> 0 [] name = "a" -> 1 [] name = "b" -> 2

\* The keys in descending order.
RECURSIVE sortedDescending(_)
sortedDescending(S) ==
    IF S = {}
    THEN <<>>
    ELSE LET m == CHOOSE x \in S : \A y \in S : Rank(x) >= Rank(y)
         IN  <<m>> \o sortedDescending(S \ {m})

\* slices.Sorted(maps.Keys(entries)).
RECURSIVE Sorted(_)
Sorted(S) ==
    IF S = {}
    THEN <<>>
    ELSE LET m == CHOOSE x \in S : \A y \in S : Rank(x) <= Rank(y)
         IN  <<m>> \o Sorted(S \ {m})

\* ReadDir taking a count of 0 for a request of no entries.
readDirNegative(ns, d, n) ==
    IF ~IsDir(ns[d])
    THEN IF pathReturns(ns, d, Cardinality(DOMAIN ns))
         THEN [nodes |-> ns, ets |-> <<>>, err |-> "ENOTDIR",
               panic |-> FALSE]
         ELSE [nodes |-> ns, ets |-> <<>>, err |-> "nil", panic |-> TRUE]
    ELSE LET f == ns[d]
             names == Sorted(DOMAIN f.entries)
             k == Cardinality(DOMAIN f.entries)
             m == IF n < 0 THEN k - f.cursor ELSE n
         IN  IF f.cursor >= k
             THEN [nodes |-> ns, ets |-> <<>>, err |-> "EOF",
                   panic |-> FALSE]
             ELSE LET end == Min(f.cursor + m, k) IN
                  [nodes |-> [ns EXCEPT ![d].cursor = end],
                   ets |-> [i \in 1..(end - f.cursor) |->
                               Name(ns[f.entries[names[f.cursor + i]]])],
                   err |-> "nil", panic |-> FALSE]

\* ns[d].ReadDir(n): the nodes afterwards, the names of the entries returned,
\* the error, and whether the call ended the run (fil.path() of a file
\* whose chain of parents is a cycle).
readDir(ns, d, n) ==
    IF ~IsDir(ns[d])
    THEN IF pathReturns(ns, d, Cardinality(DOMAIN ns))
         THEN [nodes |-> ns, ets |-> <<>>, err |-> "ENOTDIR",
               panic |-> FALSE]
         ELSE [nodes |-> ns, ets |-> <<>>, err |-> "nil", panic |-> TRUE]
    ELSE LET f == ns[d]
             names == Sorted(DOMAIN f.entries)
             k == Cardinality(DOMAIN f.entries)
             m == IF n <= 0 THEN k - f.cursor ELSE n
         IN  IF f.cursor >= k
             THEN [nodes |-> ns, ets |-> <<>>, err |-> "EOF",
                   panic |-> FALSE]
             ELSE LET end == Min(f.cursor + m, k) IN
                  [nodes |-> [ns EXCEPT ![d].cursor = end],
                   ets |-> [i \in 1..(end - f.cursor) |->
                               Name(ns[f.entries[names[f.cursor + i]]])],
                   err |-> "nil", panic |-> FALSE]

\* What ReadDir returned: ets the names of the entries, n their number.
Listed(ets, err) ==
    [n |-> Len(ets), err |-> err, panic |-> FALSE, hang |-> FALSE,
     ets |-> ets]

ReadDir ==
    \E d \in DOMAIN nodes, n \in (-1)..MaxCount :
        LET r == readDir(nodes, d, n) IN
        /\ Running
        /\ nodes' = r.nodes
        /\ op' = TreeCall("ReadDir", n, d, d)
        /\ ret' = IF r.panic THEN Panic ELSE Listed(r.ets, r.err)
        /\ UNCHANGED <<fil, written, tk>>

(***************************************************************************)
(* open (the path resolver behind File.Open and fsDir).  A path is a       *)
(* sequence of characters; the names of the nodes are one character long,  *)
(* so an element of a path names a node when it is that one character.     *)
(***************************************************************************)
\* filepath.Join of elements that are not empty, "." or "..": the elements
\* with a separator between them (Join's Clean changes nothing then).
RECURSIVE Join(_)
Join(parts) ==
    IF parts = <<>>
    THEN <<>>
    ELSE IF Len(parts) = 1
         THEN parts[1]
         ELSE parts[1] \o <<"/">> \o Join(Tail(parts))

\* What open returns: the node (NoParent for nil), the error, and the Path
\* of the *fs.PathError.
Opened(file, err, path) == [file |-> file, err |-> err, path |-> path]

\* open treating a path as one name, without descending.
openFlat(ns, d, name) ==
    IF ~ValidPath(name)
    THEN Opened(NoParent, "ErrInvalid", name)
    ELSE IF name = <<".">>
    THEN Opened(d, "nil", <<>>)
    ELSE IF Len(name) = 1 /\ name[1] \in DOMAIN ns[d].entries
         THEN Opened(ns[d].entries[name[1]], "nil", <<>>)
         ELSE Opened(NoParent, "ErrNotExist", name)

\* open reporting the rest of the path that it could not resolve.
RECURSIVE openRemaining(_, _, _)
openRemaining(ns, d, name) ==
    IF ~ValidPath(name)
    THEN Opened(NoParent, "ErrInvalid", name)
    ELSE IF name = <<".">>
    THEN Opened(d, "nil", <<>>)
    ELSE LET parts == Split(name) IN
         IF Len(parts) > 1
         THEN LET r == openRemaining(ns, d, parts[1]) IN
              IF r.err # "nil"
              THEN Opened(NoParent, r.err, name)
              ELSE openRemaining(ns, r.file, Join(Tail(parts)))
         ELSE IF Len(name) = 1 /\ name[1] \in DOMAIN ns[d].entries
              THEN Opened(ns[d].entries[name[1]], "nil", <<>>)
              ELSE Opened(NoParent, "ErrNotExist", name)

\* open(ns[d], name).
RECURSIVE open(_, _, _)
open(ns, d, name) ==
    IF ~ValidPath(name)
    THEN Opened(NoParent, "ErrInvalid", name)
    ELSE IF name = <<".">>
    THEN Opened(d, "nil", <<>>)
    ELSE LET parts == Split(name) IN
         IF Len(parts) > 1
         THEN LET r == open(ns, d, parts[1]) IN
              IF r.err # "nil"
              THEN r
              ELSE open(ns, r.file, Join(Tail(parts)))
         ELSE IF Len(name) = 1 /\ name[1] \in DOMAIN ns[d].entries
              THEN Opened(ns[d].entries[name[1]], "nil", <<>>)
              ELSE Opened(NoParent, "ErrNotExist", name)

\* The paths given to open: paths of one, two and three names, ".", a name
\* no node has, and paths that are not valid.
OpenPaths ==
    {<<"a">>, <<"a", "/", "b">>, <<"b", "/", "a">>,
     <<"a", "/", "b", "/", "a">>, <<".">>, <<"a", "b">>}
        \cup {<<>>, <<"/", "a">>, <<"a", "/", "/", "b">>, <<"a", "/", ".">>}

\* File.Open: op.path is the path given, op.file the node returned, ret.path
\* the path the error carries.
Open ==
    \E d \in DOMAIN nodes, name \in OpenPaths :
        LET r == open(nodes, d, name) IN
        /\ Running
        /\ op' = [name |-> "Open", k |-> 0, dir |-> d, file |-> r.file,
                  path |-> name]
        /\ ret' = [n |-> 0, err |-> r.err, panic |-> FALSE, hang |-> FALSE,
                   path |-> r.path]
        /\ UNCHANGED <<fil, written, tk, nodes>>

\* filepath.Join(par, pth) for a path par and a name pth: Clean drops the
\* "." elements, and gives "." when nothing is left.
pathJoin(par, pth) ==
    LET elems == SelectSeq(Split(par) \o <<pth>>, LAMBDA e : e # <<".">>)
    IN  IF elems = <<>> THEN <<".">> ELSE Join(elems)

\* File.path of ns[id], for a node whose chain of parents ends: the name,
\* joined to the path of the parent when there is one (the path of a parent
\* is never empty: the name of the root is ".").
RECURSIVE path(_, _)
path(ns, id) ==
    LET pth == <<Name(ns[id])>> IN
    IF ns[id].parent # NoParent
    THEN LET par == path(ns, ns[id].parent) IN
         IF par # <<>> THEN pathJoin(par, pth) ELSE pth
    ELSE pth

\* A call of path() on a node, as AddFile, ReadDir and List make for their
\* errors: op.path is the path returned; the call never returns when the
\* chain of parents is a cycle.
Path ==
    \E id \in DOMAIN nodes :
        /\ Running
        /\ IF pathReturns(nodes, id, Cardinality(DOMAIN nodes))
           THEN /\ op' = [name |-> "path", k |-> 0, dir |-> id, file |-> id,
                          path |-> path(nodes, id)]
                /\ ret' = Ok(0)
           ELSE /\ op' = [name |-> "path", k |-> 0, dir |-> id, file |-> id,
                          path |-> <<>>]
                /\ ret' = Panic
        /\ UNCHANGED <<fil, written, tk, nodes>>

(***************************************************************************)
(* fsDir: the fs.FS view of a directory node.                             *)
(***************************************************************************)
\* fsDir.open: open, with ErrNotExist turned into ENOENT.
fsDirOpen(ns, d, name) ==
    LET r == open(ns, d, name) IN
    IF r.err = "ErrNotExist"
    THEN Opened(NoParent, "ENOENT", r.path)
    ELSE r

\* fsDir{ns[d]}.ReadDir(name): the node is resolved, must be a directory,
\* and is listed by its own ReadDir(-1), from its own cursor.
fsDirReadDir(ns, d, name) ==
    LET o == fsDirOpen(ns, d, name) IN
    IF o.err # "nil"
    THEN [nodes |-> ns, ets |-> <<>>, err |-> o.err, panic |-> FALSE]
    ELSE IF ~IsDir(ns[o.file])
    THEN [nodes |-> ns, ets |-> <<>>, err |-> "ENOTDIR", panic |-> FALSE]
    ELSE readDir(ns, o.file, -1)

\* The paths given to fsDir.ReadDir and fsDir.Stat.
FsPaths ==
    {<<".">>, <<"a">>, <<"b">>, <<"a", "/", "a">>, <<"a", "/", "b">>,
     <<"/", "a">>}

\* op.file is the node the path resolves to (NoParent when it does not).
FsDirReadDir ==
    \E d \in {i \in DOMAIN nodes : IsDir(nodes[i])}, name \in FsPaths :
        LET r == fsDirReadDir(nodes, d, name) IN
        /\ Running
        /\ nodes' = r.nodes
        /\ op' = [name |-> "fsDir.ReadDir", k |-> 0, dir |-> d,
                  file |-> fsDirOpen(nodes, d, name).file, path |-> name]
        /\ ret' = IF r.panic THEN Panic ELSE Listed(r.ets, r.err)
        /\ UNCHANGED <<fil, written, tk>>

\* File.Stat: the FileInfo of the node with the size File.Size gives.
Stat(f) == [name |-> Name(f), size |-> Size(f), isDir |-> IsDir(f)]

\* What fsDir.Stat returns: the FileInfo (NilFile for nil) and the error.
Info(info, err) == [info |-> info, err |-> err]

\* fsDir.Stat resolving the name as a path.
fsDirStatDeep(ns, d, name) ==
    LET o == fsDirOpen(ns, d, name) IN
    IF o.err # "nil"
    THEN Info(NilFile, "ENOENT")
    ELSE Info(Stat(ns[o.file]), "nil")

\* fsDir{ns[d]}.Stat(name): name is a key of the entries of the directory,
\* or the call fails.
fsDirStat(ns, d, name) ==
    IF Len(name) = 1 /\ name[1] \in DOMAIN ns[d].entries
    THEN Info(Stat(ns[ns[d].entries[name[1]]]), "nil")
    ELSE Info(NilFile, "ENOENT")

\* ret.info is the FileInfo returned.
FsDirStat ==
    \E d \in {i \in DOMAIN nodes : IsDir(nodes[i])}, name \in FsPaths :
        LET r == fsDirStat(nodes, d, name) IN
        /\ Running
        /\ op' = [name |-> "fsDir.Stat", k |-> 0, dir |-> d,
                  file |-> fsDirOpen(nodes, d, name).file, path |-> name]
        /\ ret' = [n |-> 0, err |-> r.err, panic |-> FALSE, hang |-> FALSE,
                   info |-> r.info]
        /\ UNCHANGED <<fil, written, tk, nodes>>

(***************************************************************************)
(* File.ReadFile: fs.ReadFile on the File behind fsOnly, which has only    *)
(* Open, so that fs.ReadFile opens the node, asks Stat for its size, reads *)
(* with File.Read until an error, and closes the node.                     *)
(***************************************************************************)
\* The loop of fs.ReadFile: Read into the room after the data, one byte of
\* room being added when there is none, until Read returns an error; EOF
\* ends it without an error.
RECURSIVE readLoop(_, _, _)
readLoop(f, data, room) ==
    LET c == IF Len(data) >= room THEN room + 1 ELSE room
        r == read(f, c - Len(data))
    IN  IF r.err # "nil"
        THEN [f |-> r.f, data |-> data,
              err |-> IF r.err = "EOF" THEN "nil" ELSE r.err]
        ELSE readLoop(r.f, data \o r.data, c)

\* ns[d].ReadFile(name): the nodes afterwards, the bytes returned, the
\* error, the node that was read (NoParent when none was), and whether the
\* call ended the run (fil.path() of a file whose chain of parents is a
\* cycle).  The node is closed when the call returns.
readFile(ns, d, name) ==
    IF ~IsDir(ns[d])
    THEN [nodes |-> ns, data |-> <<>>, err |-> "ENOTDIR", file |-> NoParent,
          panic |-> ~pathReturns(ns, d, Cardinality(DOMAIN ns))]
    ELSE LET o == open(ns, d, name) IN
         IF o.err # "nil"
         THEN [nodes |-> ns, data |-> <<>>, err |-> o.err, file |-> NoParent,
               panic |-> FALSE]
         ELSE IF IsDir(ns[o.file])
         THEN [nodes |-> [ns EXCEPT ![o.file] = close(@).f], data |-> <<>>,
               err |-> "EISDIR", file |-> o.file,
               panic |-> ~pathReturns(ns, o.file, Cardinality(DOMAIN ns))]
         ELSE LET r == readLoop(ns[o.file], <<>>, Size(ns[o.file]) + 1) IN
              [nodes |-> [ns EXCEPT ![o.file] = close(r.f).f],
               data |-> r.data, err |-> r.err, file |-> o.file,
               panic |-> FALSE]

\* op.file is the node read, op.k the cursor the call found it with;
\* ret.data are the bytes returned.
ReadFile ==
    \E d \in DOMAIN nodes, name \in FsPaths :
        LET r == readFile(nodes, d, name) IN
        /\ Running
        /\ nodes' = IF r.panic THEN nodes ELSE r.nodes
        /\ op' = [name |-> "ReadFile",
                  k |-> IF r.file = NoParent THEN 0 ELSE nodes[r.file].off,
                  dir |-> d, file |-> r.file, path |-> name]
        /\ ret' = IF r.panic
                  THEN Panic
                  ELSE [n |-> Len(r.data), err |-> r.err, panic |-> FALSE,
                        hang |-> FALSE, data |-> r.data]
        /\ UNCHANGED <<fil, written, tk>>

\* File.Seek on a node of the tree.
SeekNode ==
    \E id \in DOMAIN nodes, offset \in 0..MaxOff,
       whence \in {SeekStart, SeekEnd} :
        LET r == seek(nodes[id], offset, whence) IN
        /\ Running
        /\ r.f.off <= MaxOff
        /\ nodes' = [nodes EXCEPT ![id] = r.f]
        /\ op' = TreeCall("Seek", offset, id, id)
        /\ ret' = Err(r.n, r.err)
        /\ UNCHANGED <<fil, written, tk>>

(***************************************************************************)
(* Specifications.                                                         *)
(***************************************************************************)
Next ==
    \/ Write
    \/ WriteByte
    \/ WriteString
    \/ WriteAt
    \/ Read
    \/ Seek
    \/ Truncate
    \/ Grow
    \/ Close
    \/ ReadFrom

\* Every operation of a file node, from every constructor.
Spec == Init /\ [][Next]_vars

\* Sequences of writes and seeks, with the history of the offsets written.
NextWS == WriteH \/ WriteAtH \/ Seek

SpecWS == InitH /\ [][NextWS]_vars

\* Seek, Write, WriteAt, Truncate and ReadFrom from a bytes.Reader, with the
\* history of the offsets written and of the truncations.
NextTrunc == WriteH \/ WriteAtH \/ Seek \/ TruncateH \/ ReadFromH

SpecTrunc == InitH /\ [][NextTrunc]_vars

\* The reading side of a file node: Read, ReadByte, ReadAt and WriteTo, with
\* Seek and Write to move the cursor and change the content.
NextRead == Read \/ ReadByte \/ ReadAt \/ WriteTo \/ Seek \/ Write

SpecRead == Init /\ [][NextRead]_vars

\* Release among the calls that fill a file, move its cursor and read it.
NextRel == Release \/ Write \/ Seek \/ Read

SpecRel == Init /\ [][NextRel]_vars

\* Making files and moving their cursor.
NextNew == CallFileWith \/ CallNewFile \/ Seek

SpecNew == Init /\ [][NextNew]_vars

\* The names of the children of a directory.
Names == {"a", "b"}

\* The directory nodes: NewDirectory or NewRoot, with the entries AddFile
\* registered and the listing cursor where ReadDir left it.  The children
\* are not modelled here: each name stands for its node.
DirNodes ==
    UNION {{[NewDirectory EXCEPT !.entries = [name \in e |-> name],
                                 !.cursor = c] :
               c \in 0..Cardinality(e)} : e \in SUBSET Names}

InitDir ==
    /\ fil \in DirNodes
    /\ op = NoOp
    /\ ret = Ok(0)
    /\ written = {}
    /\ tk = -1
    /\ nodes = NoNodes

\* The buffer operations called on a directory node.
NextDir ==
    \/ Write
    \/ WriteByte
    \/ WriteString
    \/ WriteAt
    \/ WriteTo
    \/ Read
    \/ ReadByte
    \/ ReadAt
    \/ ReadFrom
    \/ Seek
    \/ Truncate
    \/ Grow

SpecDir == InitDir /\ [][NextDir]_vars

\* The nodes ids of Constructors(o), not yet added to one another.
InitNodes(ids, o) ==
    /\ nodes = [id \in ids |-> Constructors(o)[id]]
    /\ fil = NewRoot
    /\ op = NoOp
    /\ ret = Ok(0)
    /\ written = {}
    /\ tk = -1

\* Building trees: AddFile of any node to any node, and Close on any node.
InitTree == \E o \in 0..1 : InitNodes(Ids, o)

NextTree == AddFile \/ CloseNode

SpecTree == InitTree /\ [][NextTree]_vars

\* Listing directories while they are filled: a root, a directory and two
\* files, with AddFile, ReadDir and Close on any of them.
InitList == InitNodes({"root", "dirA", "filA", "filB"}, 0)

NextList == AddFile \/ ReadDir \/ CloseNode

SpecList == InitList /\ [][NextList]_vars

\* A file "a" whose info.mode was set to fs.ModeSymlink after FileWith made
\* it, as the tests of AddFile do: a node that is neither a file nor a
\* directory.
Symlink == [Named(NewFile(0, {}), "a") EXCEPT !.symlink = TRUE]

\* AddFile of any node to any node, among a root, two directories, a file
\* and the node that is neither a file nor a directory.
InitAdd ==
    /\ nodes = [id \in {"root", "dirA", "dirB", "filA", "lnkA"} |->
                   IF id = "lnkA" THEN Symlink ELSE Constructors(0)[id]]
    /\ fil = NewRoot
    /\ op = NoOp
    /\ ret = Ok(0)
    /\ written = {}
    /\ tk = -1

NextAdd == AddFile

SpecAdd == InitAdd /\ [][NextAdd]_vars

\* Resolving paths in the trees of a root, two directories and a file.
InitOpen == InitNodes({"root", "dirA", "dirB", "filA"}, 0)

NextOpen == AddFile \/ Open

SpecOpen == InitOpen /\ [][NextOpen]_vars

\* The fs.FS view of the directories of a tree that is being built and
\* listed: a root, a directory and two files.
InitFS == InitNodes({"root", "dirA", "filA", "filB"}, 0)

NextFS == AddFile \/ ReadDir \/ FsDirReadDir \/ FsDirStat

SpecFS == InitFS /\ [][NextFS]_vars

\* The paths of the nodes of the trees of a root, the directories "a" and
\* "b", the file "a" and a file that FileWith named ".".
InitPath ==
    /\ nodes = [id \in {"root", "dirA", "dirB", "filA", "dotF"} |->
                   IF id = "dotF"
                   THEN Named(NewFile(0, {}), ".")
                   ELSE Constructors(0)[id]]
    /\ fil = NewRoot
    /\ op = NoOp
    /\ ret = Ok(0)
    /\ written = {}
    /\ tk = -1

NextPath == AddFile \/ Path

SpecPath == InitPath /\ [][NextPath]_vars

\* Reading the files of a tree through ReadFile while their cursors are
\* moved: a root, a directory and the file "a", one byte long.
InitRF == InitNodes({"root", "dirA", "filA"}, 0)

NextRF == AddFile \/ SeekNode \/ ReadFile

SpecRF == InitRF /\ [][NextRF]_vars

(***************************************************************************)
(* Properties.                                                             *)
(***************************************************************************)
AppendMode == O_APPEND \in fil.flag

\* C1: not in append mode and with the cursor o at most the length, Write(p)
\* returns len(p), leaves content[0..o) ++ p ++ content[o+len(p)..length),
\* length max(length, o+len(p)) and cursor o+len(p).
C1_WriteAtCursor ==
    \A p \in Data :
        (~AppendMode /\ fil.off <= fil.len) =>
            LET r == write(fil, p)
                o == fil.off
                n == Len(p)
            IN  /\ ~r.panic
                /\ r.n = n
                /\ content(r.f) = SubSeq(content(fil), 1, o) \o p
                                    \o SubSeq(content(fil), o + n + 1, fil.len)
                /\ r.f.len = Max(fil.len, o + n)
                /\ r.f.off = o + n

\* A Write of two bytes or more, not in append mode, that ended before the
\* end of the content.
C1_Witness ==
    /\ op.name = "Write" /\ op.k > 1 /\ ret.n = op.k /\ ~ret.panic
    /\ ~AppendMode
    /\ fil.off >= op.k /\ fil.off < fil.len

\* C2: in append mode, wherever Seek, Read and Close left the cursor, a write
\* (Write, WriteByte and WriteString all go through write) puts p at the old
\* end: content ++ p, cursor and length both length + len(p), and the old
\* content unchanged.
C2_AppendWritesAtEnd ==
    \A p \in Data :
        AppendMode =>
            LET r == write(fil, p) IN
            /\ ~r.panic
            /\ r.n = Len(p)
            /\ content(r.f) = content(fil) \o p
            /\ r.f.len = fil.len + Len(p)
            /\ r.f.off = r.f.len

\* A write in append mode that added bytes to content that was there.
C2_Witness ==
    /\ op.name \in {"Write", "WriteByte", "WriteString"}
    /\ op.k > 0 /\ ret.n = op.k /\ ~ret.panic
    /\ AppendMode
    /\ fil.off = fil.len /\ fil.len > op.k

\* C3: after writes and seeks alone (that returned), the length is at least
\* the highest offset written to, and every byte nobody wrote is zero.
C3_LengthCoversWrites ==
    Running =>
        /\ \A i \in written : fil.len >= i
        /\ \A i \in 0..(fil.len - 1) : i \notin written => fil.arr[i + 1] = 0

\* C4: Write(p) on a file node completes and returns len(p) and no error.
C4_WriteIsComplete ==
    op.name = "Write" => (~ret.panic /\ ret.err = "nil" /\ ret.n = op.k)

\* C5: the bytes of the backing array between length and capacity are zero.
C5_SpareIsZero ==
    Running => \A i \in (fil.len + 1)..cap(fil) : fil.arr[i] = 0

\* C6: not in append mode, Truncate(size) with size >= 0 succeeds and leaves
\* length size, the bytes below min(size, length) as they were, zeros from
\* the old length to size, and the cursor where it was; with size < 0 it
\* returns an error and changes nothing.
C6_Truncate ==
    [][(op'.name = "Truncate" /\ ~AppendMode) =>
          IF op'.k >= 0
          THEN /\ ret'.err = "nil"
               /\ fil'.len = op'.k
               /\ \A i \in 1..Min(op'.k, fil.len) : fil'.arr[i] = fil.arr[i]
               /\ \A i \in (fil.len + 1)..op'.k : fil'.arr[i] = 0
               /\ fil'.off = fil.off
          ELSE /\ ret'.err = "EINVAL"
               /\ fil' = fil]_vars

\* C7: after a Truncate(k) below the length and then Seek, Write, WriteAt and
\* Truncate calls, every byte at k or beyond that was not written since is
\* zero.
C7_NoStaleBytes ==
    (Running /\ tk # -1) =>
        \A i \in tk..(fil.len - 1) : i \notin written => fil.arr[i + 1] = 0

\* C8: in append mode, after a successful Truncate(size) the cursor is size.
C8_TruncateAppendCursor ==
    (op.name = "Truncate" /\ ret.err = "nil" /\ AppendMode) => fil.off = op.k

\* C9: not in append mode, WriteAt(p, off) returns len(p) and no error, keeps
\* the cursor, leaves length max(length, off+len(p)), p at [off, off+len(p)),
\* zeros in [length, off), and every other byte below the old length as it
\* was.
C9_WriteAt ==
    (Running /\ ~AppendMode) =>
        \A p \in Data, off \in 0..MaxOff :
            LET r == writeAt(fil, p, off)
                n == Len(p)
            IN  /\ ~r.panic /\ r.err = "nil" /\ r.n = n
                /\ r.f.off = fil.off
                /\ r.f.len = Max(fil.len, off + n)
                /\ \A i \in 1..n : r.f.arr[off + i] = p[i]
                /\ \A i \in (fil.len + 1)..off : r.f.arr[i] = 0
                /\ \A i \in 1..fil.len :
                       (i <= off \/ i > off + n) => r.f.arr[i] = fil.arr[i]

\* C10: in append mode WriteAt(p, off) fails with the invalid-operation
\* error, returns 0 and leaves the file as it was.
C10_WriteAtInAppendMode ==
    AppendMode =>
        \A p \in Data, off \in 0..MaxOff :
            LET r == writeAt(fil, p, off) IN
            /\ r.err = "errWriteAtInAppendMode"
            /\ r.n = 0
            /\ ~r.panic
            /\ r.f = fil

\* A WriteAt of some bytes that was refused in append mode.
C10_Witness ==
    /\ op.name = "WriteAt" /\ op.k > 0
    /\ ret.err = "errWriteAtInAppendMode" /\ ret.n = 0
    /\ AppendMode /\ fil.len > 0

\* C11: Read with a destination of k bytes and the cursor at o copies
\* n = min(k, max(length - o, 0)) bytes content[o..o+n), advances the cursor
\* by n, changes nothing else, and reports end-of-data exactly when k > 0
\* and o >= length.
C11_Read ==
    (Running /\ ~IsDir(fil)) =>
        \A k \in 0..MaxData :
            LET r == read(fil, k)
                o == fil.off
                n == Min(k, Max(fil.len - o, 0))
            IN  /\ ~r.panic
                /\ r.n = n
                /\ r.data = SubSeq(fil.arr, o + 1, o + n)
                /\ r.f = [fil EXCEPT !.off = o + n]
                /\ r.err = (IF k > 0 /\ o >= fil.len THEN "EOF" ELSE "nil")

\* C12: ReadAt with a destination of k bytes and off >= 0 copies
\* content[off..min(off+k, length)), returns that count n, reports
\* end-of-data exactly when n < k, and leaves the file as it was.
C12_ReadAt ==
    (Running /\ ~IsDir(fil)) =>
        \A k \in 0..MaxData, off \in 0..MaxOff :
            LET r  == readAt(fil, k, off)
                to == Min(off + k, fil.len)
                n  == Max(to - off, 0)
            IN  /\ ~r.panic
                /\ r.n = n
                /\ r.data = SubSeq(fil.arr, off + 1, to)
                /\ r.err = (IF n < k THEN "EOF" ELSE "nil")
                /\ r.f = fil

C14_WriteTo ==
    (Running /\ ~IsDir(fil)) =>
        \A accept \in 0..MaxCap :
            LET r == writeTo(fil, accept) IN
            /\ ~r.panic
            /\ r.passed = SubSeq(fil.arr, fil.off + 1, fil.len)
            /\ r.n = Min(accept, Len(r.passed))
            /\ r.f = [fil EXCEPT !.off = fil.off + r.n]

\* C15: ReadFrom from a source that delivers d, in whatever chunks, returns
\* len(d) and no error and leaves the content, length and cursor that one
\* Write(d) from the same state leaves.
C15_ReadFromAsWrite ==
    (Running /\ ~IsDir(fil)) =>
        \A d \in Data, chunk \in 1..MaxData, eofLast \in BOOLEAN,
           scribble \in BOOLEAN :
            LET r == readFrom(fil, d, chunk, eofLast, scribble)
                w == write(fil, d)
            IN  /\ ~r.panic /\ ~r.hang
                /\ r.err = "nil" /\ r.n = Len(d)
                /\ r.f.len = w.f.len
                /\ content(r.f) = content(w.f)
                /\ r.f.off = w.f.off

\* C16: whatever the source does to the region it is handed, ReadFrom
\* changes no byte of the content that was there outside
\* [cursor, cursor + n), n being the count it returns.
C16_SourceCannotCorrupt ==
    (Running /\ ~IsDir(fil)) =>
        \A d \in Data, chunk \in 1..MaxData, eofLast \in BOOLEAN,
           scribble \in BOOLEAN :
            LET r == readFrom(fil, d, chunk, eofLast, scribble)
                o == writeOff(fil)
            IN  \A i \in 1..fil.len :
                    (i <= o \/ i > o + r.n) => r.f.arr[i] = fil.arr[i]

\* A ReadFrom that wrote into the middle of the content, ended before its
\* end, and left bytes of the source in the spare capacity.
C16_Witness ==
    /\ op.name = "ReadFrom" /\ op.k > 0 /\ ret.n = op.k /\ Running
    /\ fil.off < fil.len
    /\ \E i \in (fil.len + 1)..cap(fil) : fil.arr[i] # 0

\* C17: Grow(n) leaves length, content and cursor as they were, and a Write
\* of up to n bytes after it does not change the capacity.
C17_Grow ==
    (Running /\ ~IsDir(fil)) =>
        \A n \in 0..MaxData :
            LET g == GrowBuf(fil, n) IN
            /\ g.len = fil.len
            /\ content(g) = content(fil)
            /\ g.off = fil.off
            /\ \A p \in Data :
                   Len(p) <= n => cap(write(g, p).f) = cap(g)

\* C18: a Write of n bytes at cursor o (the length, in append mode) leaves
\* the capacity c when o + n <= c, and otherwise makes it 2c + n, or
\* smallBufferSize for a nil buffer and n <= smallBufferSize; the capacity
\* never decreases and the content outside the written range is kept.
C18_WriteGrowth ==
    ~IsDir(fil) =>
        \A p \in Data :
            LET o == writeOff(fil)
                n == Len(p)
                c == cap(fil)
                r == write(fil, p)
            IN  /\ cap(r.f) = (IF o + n <= c THEN c
                               ELSE IF fil.nil /\ n <= smallBufferSize
                               THEN smallBufferSize
                               ELSE 2 * c + n)
                /\ cap(r.f) >= c
                /\ \A i \in 1..fil.len :
                       (i <= o \/ i > o + n) => r.f.arr[i] = fil.arr[i]

\* A Write of two bytes at the end of one byte of content: capacity
\* 2 * 1 + 2.
C18_Witness ==
    /\ op.name = "Write" /\ op.k = 2 /\ ret.n = 2 /\ Running
    /\ fil.len = 3 /\ fil.off = 3 /\ cap(fil) = 4

C21_Release ==
    /\ Running =>
           LET r == release(fil) IN
           /\ r.data = content(fil)
           /\ r.f.len = 0 /\ cap(r.f) = 0 /\ r.f.off = 0
           /\ \A k \in 1..MaxData :
                  LET d == read(r.f, k) IN
                  ~d.panic /\ d.n = 0 /\ d.err = "EOF" /\ d.data = <<>>
    /\ op.name = "Release" => fil.len = 0 /\ cap(fil) = 0 /\ fil.off = 0

\* A Release of content that was there, called with the cursor off its start.
C21_Witness ==
    /\ op.name = "Release" /\ op.k > 0 /\ ret.n > 0
    /\ fil.len = 0 /\ fil.nil

\* C22: Close always succeeds, sets the cursor to 0 and leaves content,
\* length, capacity, append flag, parent, entries and listing cursor as they
\* were; a second Close changes nothing more, and Close on a nil handle
\* succeeds and does nothing.
C22_Close ==
    /\ close(NilFile) = [f |-> NilFile, err |-> "nil"]
    /\ \A id \in DOMAIN nodes :
           LET f == nodes[id]
               r == close(f)
           IN  /\ r.err = "nil"
               /\ r.f.off = 0
               /\ r.f.arr = f.arr /\ r.f.len = f.len /\ r.f.nil = f.nil
               /\ r.f.flag = f.flag
               /\ r.f.parent = f.parent /\ r.f.entries = f.entries
               /\ r.f.cursor = f.cursor
               /\ r.f.name = f.name /\ r.f.isDir = f.isDir
               /\ close(r.f) = r
    /\ op.name = "Close" => ret.err = "nil" /\ nodes[op.dir].off = 0

\* A Close of a file that has content, a cursor off its start and a parent.
C22_Witness ==
    /\ op.name = "Close" /\ op.k > 0 /\ ret.err = "nil"
    /\ nodes[op.dir].off = 0 /\ nodes[op.dir].len > 0
    /\ nodes[op.dir].parent # NoParent

\* C23: once Close was called on a handle, the only call that handle takes
\* is a further Close: no Read, Write, Seek, Truncate or Grow follows a
\* Close and succeeds.
C23_ClosedIsTerminal ==
    [][(op.name = "Close" /\ Running)
          => (op'.name = "Close" \/ ret'.err # "nil")]_vars

\* The offset a list of options leaves: that of the last WithFileOffset, 0
\* when there is none.
RECURSIVE lastOffset(_)
lastOffset(opts) ==
    IF opts = <<>>
    THEN 0
    ELSE IF opts[Len(opts)].opt = "WithFileOffset"
         THEN opts[Len(opts)].off
         ELSE lastOffset(SubSeq(opts, 1, Len(opts) - 1))

Registered(c) ==
    {dk \in (DOMAIN nodes) \X {".", "a", "b"} :
        /\ dk[2] \in DOMAIN nodes[dk[1]].entries
        /\ nodes[dk[1]].entries[dk[2]] = c}

\* C25: every node is an entry of at most one directory, and AddFile(child)
\* to a directory, for a child that has a parent, fails with ErrHasParent
\* and leaves every node as it was: the child's parent, the entries of the
\* parent and those of the directory.
C25_SingleParent ==
    Running =>
        /\ \A c \in DOMAIN nodes : Cardinality(Registered(c)) <= 1
        /\ \A d \in DOMAIN nodes, c \in DOMAIN nodes :
               (IsDir(nodes[d]) /\ nodes[c].parent # NoParent) =>
                   LET r == addFile(nodes, d, c) IN
                   ~r.panic /\ r.err = "ErrHasParent" /\ r.nodes = nodes

\* C26: the names of the children of a directory are unique: AddFile(child)
\* to a directory that has an entry of child's name fails with ErrExist,
\* the entry is the node it was, and the child still has no parent, so that
\* a directory without such an entry takes it.
C26_UniqueNames ==
    Running =>
        /\ \A d \in DOMAIN nodes :
               \A k \in DOMAIN nodes[d].entries :
                   Name(nodes[nodes[d].entries[k]]) = k
        /\ \A d \in DOMAIN nodes, c \in DOMAIN nodes :
               (/\ IsDir(nodes[d])
                /\ nodes[c].parent = NoParent
                /\ Name(nodes[c]) \in DOMAIN nodes[d].entries) =>
                   LET r == addFile(nodes, d, c) IN
                   /\ ~r.panic /\ r.err = "ErrExist"
                   /\ r.nodes = nodes
                   /\ r.nodes[d].entries[Name(nodes[c])]
                          = nodes[d].entries[Name(nodes[c])]
                   /\ r.nodes[c].parent = NoParent
                   /\ \A e \in DOMAIN nodes :
                          (/\ IsDir(nodes[e])
                           /\ Name(nodes[c]) \notin DOMAIN nodes[e].entries)
                              => LET s == addFile(r.nodes, e, c) IN
                                 /\ s.err = "nil"
                                 /\ s.nodes[c].parent = e
                                 /\ s.nodes[e].entries[Name(nodes[c])] = c

\* An AddFile refused with ErrExist: the directory has another node under
\* the name, and the node refused has no parent.
C26_Witness ==
    /\ op.name = "AddFile" /\ ret.err = "ErrExist"
    /\ nodes[op.file].parent = NoParent
    /\ nodes[op.dir].entries[Name(nodes[op.file])] # op.file

\* C27: the root has an empty name and no parent in every state, and is an
\* entry of no directory, whatever AddFile calls were made.
C27_RootHasNoParent ==
    /\ nodes["root"].name = ""
    /\ nodes["root"].parent = NoParent
    /\ Registered("root") = {}

\* The names of the children of directory d in ascending order, each once.
Ascending(s) == \A i \in 1..Len(s), j \in 1..Len(s) :
                    i < j => Rank(s[i]) < Rank(s[j])

Children(d) ==
    {Name(nodes[nodes[d].entries[k]]) : k \in DOMAIN nodes[d].entries}

InOrder(d) ==
    CHOOSE s \in [1..Cardinality(Children(d)) -> Children(d)] :
        Ascending(s) /\ {s[i] : i \in 1..Len(s)} = Children(d)

\* Successive ReadDir calls on d with the counts given, no other call
\* between them: the entries returned up to the first end-of-data, one
\* after the other, and whether end-of-data came.
RECURSIVE Listing(_, _, _)
Listing(ns, d, counts) ==
    IF counts = <<>>
    THEN [ets |-> <<>>, eof |-> FALSE]
    ELSE LET r == readDir(ns, d, Head(counts)) IN
         IF r.err = "EOF"
         THEN [ets |-> <<>>, eof |-> TRUE]
         ELSE LET rest == Listing(r.nodes, d, Tail(counts)) IN
              [ets |-> r.ets \o rest.ets, eof |-> rest.eof]

\* C28: on a directory with k children and the listing cursor at c,
\* ReadDir(n) with n > 0 returns the min(n, k - c) entries that follow the
\* cursor in ascending name order and advances the cursor by their number,
\* with end-of-data and no entries when c = k; successive calls so list the
\* children from the cursor on, each once and in ascending order, all of
\* them when the listing began at 0.
C28_ReadDirInOrder ==
    Running =>
        \A d \in {d \in DOMAIN nodes : IsDir(nodes[d])} :
            LET k == Cardinality(Children(d))
                c == nodes[d].cursor
            IN  /\ \A n \in 1..MaxCount :
                       LET r == readDir(nodes, d, n)
                           m == Min(n, k - c)
                       IN  /\ ~r.panic
                           /\ Len(r.ets) = m
                           /\ r.ets = SubSeq(InOrder(d), c + 1, c + m)
                           /\ r.nodes = [nodes EXCEPT ![d].cursor = c + m]
                           /\ r.err = IF c = k THEN "EOF" ELSE "nil"
                /\ \A counts \in [1..(k + 1) -> 1..MaxCount] :
                       LET l == Listing(nodes, d, counts) IN
                       /\ l.eof
                       /\ l.ets = SubSeq(InOrder(d), c + 1, k)
                       /\ Ascending(l.ets)
                       /\ c = 0 => {l.ets[i] : i \in 1..Len(l.ets)}
                                       = Children(d)

\* The second of two ReadDir(1) calls on a directory with three children.
C28_Witness ==
    /\ op.name = "ReadDir" /\ op.k = 1 /\ ret.err = "nil" /\ ret.n = 1
    /\ nodes[op.dir].cursor = 2
    /\ Cardinality(DOMAIN nodes[op.dir].entries) = 3
    /\ ret.ets = <<"a">>

\* C29: ReadDir(n) with n <= 0 and the listing cursor before the end
\* returns all the entries from the cursor on, in name order and without
\* an error, and puts the cursor at the end; with the cursor at the end
\* every ReadDir, whatever n, returns no entries and end-of-data, on a
\* directory without children too; neither ReadDir nor Close moves the
\* cursor back.
C29_ReadDirAll ==
    Running =>
        \A d \in {d \in DOMAIN nodes : IsDir(nodes[d])} :
            LET k == Cardinality(Children(d))
                c == nodes[d].cursor
            IN  /\ c <= k
                /\ \A n \in (-1)..0 :
                       c < k =>
                           LET r == readDir(nodes, d, n) IN
                           /\ ~r.panic /\ r.err = "nil"
                           /\ r.ets = SubSeq(InOrder(d), c + 1, k)
                           /\ r.nodes = [nodes EXCEPT ![d].cursor = k]
                /\ \A n \in (-1)..MaxCount :
                       LET r == readDir(nodes, d, n) IN
                       /\ c = k => /\ ~r.panic /\ r.err = "EOF"
                                   /\ r.ets = <<>> /\ r.nodes = nodes
                       /\ r.nodes[d].cursor >= c
                /\ close(nodes[d]).f.cursor = c

\* A ReadDir(0) that returned the two entries left after the first.
C29_Witness ==
    /\ op.name = "ReadDir" /\ op.k = 0 /\ ret.err = "nil" /\ ret.n = 2
    /\ nodes[op.dir].cursor = 3

\* The lists of up to MaxDepth names.
Segments == UNION {[1..n -> {"a", "b"}] : n \in 1..MaxDepth}

\* Looking the names up one after the other, each among the entries of the
\* node reached so far: the node reached, NoParent when a name is missing.
RECURSIVE Walk(_, _)
Walk(d, names) ==
    IF names = <<>>
    THEN d
    ELSE IF Head(names) \in DOMAIN nodes[d].entries
         THEN Walk(nodes[d].entries[Head(names)], Tail(names))
         ELSE NoParent

\* The path of the names: the names with a slash between them.
RECURSIVE Slashed(_)
Slashed(names) ==
    IF Len(names) = 1
    THEN <<names[1]>>
    ELSE <<names[1], "/">> \o Slashed(Tail(names))

\* C30: open(dir, ".") returns dir; open(dir, path), for a path of names
\* that are found one after the other, each among the entries of the node
\* reached so far, returns the node reached, without an error.
C30_Resolve ==
    Running =>
        \A d \in DOMAIN nodes :
            /\ open(nodes, d, <<".">>) = Opened(d, "nil", <<>>)
            /\ \A names \in Segments :
                   Walk(d, names) # NoParent =>
                       open(nodes, d, Slashed(names))
                           = Opened(Walk(d, names), "nil", <<>>)

\* An Open of "a/b/a" that returned the file three levels below the root.
C30_Witness ==
    /\ op.name = "Open" /\ op.path = <<"a", "/", "b", "/", "a">>
    /\ ret.err = "nil" /\ op.dir = "root" /\ op.file = "filA"
    /\ nodes["filA"].parent = "dirB" /\ nodes["dirB"].parent = "dirA"
    /\ nodes["dirA"].parent = "root"

\* The first of the elements that is not found, looking them up one after
\* the other, each among the entries of the node reached so far; <<>> when
\* all are found.
RECURSIVE FirstMissing(_, _)
FirstMissing(d, elems) ==
    IF elems = <<>>
    THEN <<>>
    ELSE LET e == Head(elems) IN
         IF Len(e) = 1 /\ e[1] \in DOMAIN nodes[d].entries
         THEN FirstMissing(nodes[d].entries[e[1]], Tail(elems))
         ELSE e

\* C31: open(dir, path) fails with ErrInvalid and the whole path when the
\* path is not a valid relative path; for a valid path with an element that
\* is not found it fails with ErrNotExist and that element, the first one
\* missing, and never with a path of several elements.
C31_OpenErrors ==
    Running =>
        \A d \in DOMAIN nodes :
            \A name \in OpenPaths \cup {Slashed(names) : names \in Segments} :
                LET r == open(nodes, d, name) IN
                /\ ~ValidPath(name) =>
                       r = Opened(NoParent, "ErrInvalid", name)
                /\ (ValidPath(name) /\ name # <<".">>) =>
                       LET miss == FirstMissing(d, Split(name)) IN
                       /\ miss # <<>> =>
                              /\ r = Opened(NoParent, "ErrNotExist", miss)
                              /\ "/" \notin {r.path[i] : i \in 1..Len(r.path)}
                       /\ miss = <<>> => r.err = "nil"

\* An Open of "a/b" from the root that has "a" but no "b" below it: the
\* error carries "b".
C31_Witness ==
    /\ op.name = "Open" /\ op.path = <<"a", "/", "b">> /\ op.dir = "root"
    /\ ret.err = "ErrNotExist" /\ ret.path = <<"b">>
    /\ "a" \in DOMAIN nodes["root"].entries

\* C32: fsDir.ReadDir(name), for a name that resolves to a directory,
\* returns all the entries of that directory in name order and no error,
\* whatever calls came before; for a name that resolves to a file it fails
\* with ENOTDIR.
C32_FsReadDirComplete ==
    (op.name = "fsDir.ReadDir" /\ Running /\ op.file # NoParent) =>
        IF IsDir(nodes[op.file])
        THEN ret.err = "nil" /\ ret.ets = InOrder(op.file)
        ELSE ret.err = "ENOTDIR" /\ ret.ets = <<>>

\* C33: fsDir.Stat(name) looks only among the entries of the directory it
\* wraps: when a child is registered under name it returns the child's name,
\* its size (the length of the content of a file, dirSize for a directory)
\* and kind, without an error; for every other name it fails with ENOENT,
\* a path of several names that open resolves included.
C33_StatImmediate ==
    Running =>
        \A d \in {i \in DOMAIN nodes : IsDir(nodes[i])},
           name \in FsPaths \cup {<<"a", "b">>} :
            LET r == fsDirStat(nodes, d, name)
                found == {c \in DOMAIN nodes :
                             \E k \in {".", "a", "b"} :
                                 <<k>> = name /\ <<d, k>> \in Registered(c)}
            IN  /\ \A c \in found :
                       /\ r.err = "nil"
                       /\ r.info.name = name[1]
                       /\ r.info.isDir = IsDir(nodes[c])
                       /\ r.info.size = IF IsDir(nodes[c])
                                        THEN dirSize
                                        ELSE Len(content(nodes[c]))
                /\ found = {} => r = Info(NilFile, "ENOENT")
                /\ Len(name) > 1 => r.err = "ENOENT"

\* A Stat of "a/a" that failed although the path resolves to the file "a"
\* in the directory "a".
C33_Witness ==
    /\ op.name = "fsDir.Stat" /\ op.path = <<"a", "/", "a">>
    /\ op.dir = "root" /\ op.file = "filA"
    /\ ret.err = "ENOENT"

\* The error the order of the tests of AddFile gives for ns[d].AddFile(ns[c]):
\* not a directory, then has a parent, then neither file nor directory,
\* then the name is taken; "nil" when none applies.
FirstFailure(d, c) ==
    IF ~IsDir(nodes[d]) THEN "ENOTDIR"
    ELSE IF nodes[c].parent # NoParent THEN "ErrHasParent"
    ELSE IF ~IsDir(nodes[c]) /\ nodes[c].symlink THEN "ErrInvalid"
    ELSE IF \E e \in DOMAIN nodes :
                <<d, Name(nodes[c])>> \in Registered(e) THEN "ErrExist"
    ELSE "nil"

\* C34: AddFile(child) returns the first failure that applies, in the order
\* not-a-directory, has-a-parent, invalid kind, name taken, and then
\* changes no node; when none applies it returns nil, adds the one entry
\* of the child's name for the child and makes the receiver the child's
\* parent, and changes nothing else.
C34_AddFileOrder ==
    Running =>
        \A d \in DOMAIN nodes, c \in DOMAIN nodes :
            LET r == addFile(nodes, d, c)
                e == FirstFailure(d, c)
            IN  /\ ~r.panic
                /\ r.err = e
                /\ e # "nil" => r.nodes = nodes
                /\ e = "nil" =>
                       /\ DOMAIN r.nodes[d].entries
                              = DOMAIN nodes[d].entries \cup {Name(nodes[c])}
                       /\ Name(nodes[c]) \notin DOMAIN nodes[d].entries
                       /\ r.nodes[d].entries[Name(nodes[c])] = c
                       /\ \A k \in DOMAIN nodes[d].entries :
                              r.nodes[d].entries[k] = nodes[d].entries[k]
                       /\ r.nodes[c].parent = d
                       /\ \A i \in DOMAIN nodes :
                              /\ i \notin {d, c} => r.nodes[i] = nodes[i]
                              /\ i # d => r.nodes[i].entries = nodes[i].entries
                              /\ i # c => r.nodes[i].parent = nodes[i].parent

\* The nodes below the root: those whose chain of parents ends at the root.
RECURSIVE Below(_, _, _)
Below(id, top, steps) ==
    /\ nodes[id].parent # NoParent
    /\ \/ nodes[id].parent = top
       \/ steps > 0 /\ Below(nodes[id].parent, top, steps - 1)

\* C35: in a tree below a root, open(root, path(n)) is n for every node n
\* of the tree.
C35_PathRoundTrip ==
    (Running /\ nodes["root"].parent = NoParent) =>
        \A n \in {i \in DOMAIN nodes :
                     Below(i, "root", Cardinality(DOMAIN nodes))} :
            open(nodes, "root", path(nodes, n)) = Opened(n, "nil", <<>>)

\* C36: ReadFile(name) on a directory, for a name that resolves to a file,
\* returns the whole content of the file, whatever the cursor of the file
\* was, and leaves the content as it was.
C36_ReadFileWhole ==
    (op.name = "ReadFile" /\ Running /\ op.file # NoParent
        /\ ~IsDir(nodes[op.file])) =>
        /\ ret.err = "nil"
        /\ ret.data = content(nodes[op.file])

C38_Acyclic ==
    \A id \in DOMAIN nodes :
        pathReturns(nodes, id, Cardinality(DOMAIN nodes))

\* The entries of a listing, as a set.
Yielded(ets) == {ets[i] : i \in 1..Len(ets)}

\* C39: when a successful AddFile to a directory comes between two ReadDir
\* calls on it with positive counts, the two calls return no child in
\* common, and the children the directory had before a listing began are
\* all returned before end-of-data.  (The child added is a file or a
\* directory other than the root.)
C39_InterleavedListing ==
    Running =>
        \A d \in {i \in DOMAIN nodes : IsDir(nodes[i])},
           c \in {"dirA", "filA", "filB"}, n1 \in 1..MaxCount :
            LET r1 == readDir(nodes, d, n1)
                a  == addFile(r1.nodes, d, c)
            IN  (r1.err = "nil" /\ ~a.panic /\ a.err = "nil") =>
                    /\ \A n2 \in 1..MaxCount :
                           LET r2 == readDir(a.nodes, d, n2) IN
                           r2.err = "nil" =>
                               Yielded(r1.ets) \cap Yielded(r2.ets) = {}
                    /\ nodes[d].cursor = 0 =>
                           \A counts \in [1..(Cardinality(Children(d)) + 2)
                                             -> 1..MaxCount] :
                               LET l == Listing(a.nodes, d, counts) IN
                               /\ l.eof
                               /\ Children(d) \subseteq
                                      Yielded(r1.ets) \cup Yielded(l.ets)

==========================================================================
